---- MODULE Spec2Model ----
(***************************************************************************)
(* A model of the pubsub registry (PubSub in pubsub.go, Node in            *)
(* internal/node/node.go): the subscription trie, the pruning unsubscribe, *)
(* the publish traversal with its per-publish history, the shard dispatch  *)
(* and the reader/writer lock discipline.                                  *)
(***************************************************************************)
EXTENDS Integers, Sequences, FiniteSets, TLC

VARIABLES
    nodes,      \* the heap of *node.Node objects: pointer -> Node
    handles,    \* the Unsubscriber closures returned so far, in call order
    lastOp,     \* ghost: the call that returned last, if no call began since
    snap,       \* ghost: the trie as it was before the last Subscribe
    pub,        \* ghost: what the last Publish did
    mu,         \* PubSub.mu: the sync.RWMutex or the nopLock
    gor         \* the goroutines that call the registry: where each one is

vars == <<nodes, handles, lastOp, snap, pub, mu, gor>>

----------------------------------------------------------------------------
(* Bounds of the model *)

\* longest path a Subscribe call is given
MaxDepth == 2
\* number of Subscribe calls in one behaviour
MaxSubscribes == 3
\* number of Subscribe calls in one behaviour of two goroutines
MaxLockSubscribes == 2

Labels == {"a", "b"}
ShardIDs == {"", "g"}

Paths == UNION {[1..k -> Labels] : k \in 0..MaxDepth}

----------------------------------------------------------------------------
(* Go maps: a function with a finite, changing domain *)

EmptyMap == [x \in {} |-> x]
MapPut(f, k, v) == [x \in (DOMAIN f) \cup {k} |-> IF x = k THEN v ELSE f[x]]
MapDel(f, k) == [x \in (DOMAIN f) \ {k} |-> f[x]]

----------------------------------------------------------------------------
(* Pointers to nodes.  A node never moves, so a pointer is written as the  *)
(* path the node was created at plus a generation that tells apart two     *)
(* objects created at the same path; gen -1 is the nil pointer.            *)

Ptr(p, g) == [path |-> p, gen |-> g]
NilPtr == Ptr(<<>>, -1)
RootPtr == Ptr(<<>>, 0)

\* what len(n.children) and len(n.shards) yield on a nil receiver: the field
\* read dereferences nil and the goroutine panics
Fault == -1

\* node.New
New == [children |-> EmptyMap, subscriptions |-> EmptyMap, shards |-> EmptyMap]

\* the first generation not in use at path p
RECURSIVE FreshGen(_, _, _)
FreshGen(h, p, g) == IF Ptr(p, g) \in DOMAIN h THEN FreshGen(h, p, g + 1) ELSE g

\* Node.AddChild: [h |-> the heap afterwards, c |-> the child]
AddChild(h, n, key) ==
    IF n = NilPtr THEN [h |-> h, c |-> NilPtr]
    ELSE IF key \in DOMAIN h[n].children THEN [h |-> h, c |-> h[n].children[key]]
    ELSE LET child == Ptr(Append(n.path, key), FreshGen(h, Append(n.path, key), 0))
             h1 == MapPut(h, child, New)
         IN  [h |-> [h1 EXCEPT ![n].children = MapPut(@, key, child)], c |-> child]

\* FetchChild that falls back on another child when the key is not there
FetchChildFallsBack(h, n, key) ==
    IF n = NilPtr THEN NilPtr
    ELSE IF key \in DOMAIN h[n].children THEN h[n].children[key]
    ELSE IF DOMAIN h[n].children = {} THEN NilPtr
    ELSE h[n].children[CHOOSE x \in DOMAIN h[n].children : TRUE]

\* Node.FetchChild
FetchChild(h, n, key) ==
    IF n = NilPtr THEN NilPtr
    ELSE IF key \in DOMAIN h[n].children THEN h[n].children[key]
    ELSE NilPtr

\* DeleteChild that unlinks nothing
DeleteChildKeeps(h, n, key) == h

\* Node.DeleteChild
DeleteChild(h, n, key) ==
    IF n = NilPtr THEN h
    ELSE [h EXCEPT ![n].children = MapDel(@, key)]

\* Node.ChildLen: no nil check
ChildLen(h, n) ==
    IF n = NilPtr THEN Fault ELSE Cardinality(DOMAIN h[n].children)

\* Node.SubscriptionLen: no nil check
SubscriptionLen(h, n) ==
    IF n = NilPtr THEN Fault ELSE Cardinality(DOMAIN h[n].shards)

\* SubscriptionEnvelope; rec is a ghost field, the ordinal of the Subscribe
\* call that made the envelope, which no modelled code reads
Envelope(s, id, rec) == [sub |-> s, id |-> id, rec |-> rec]

\* append(n.subscriptions[shardID], e) for a bucket that may be absent
BucketOf(node, shardID) ==
    IF shardID \in DOMAIN node.subscriptions THEN node.subscriptions[shardID] ELSE <<>>

\* AddSubscription that appends the record and leaves the index alone
AddSubscriptionUnindexed(h, n, s, shardID, id, rec) ==
    IF n = NilPtr THEN h
    ELSE [h EXCEPT ![n].subscriptions =
                       MapPut(@, shardID, Append(BucketOf(h[n], shardID), Envelope(s, id, rec)))]

\* Node.AddSubscription, with the value rand.Int63() returned given as id
AddSubscription(h, n, s, shardID, id, rec) ==
    IF n = NilPtr THEN h
    ELSE [h EXCEPT ![n].shards = MapPut(@, id, shardID),
                   ![n].subscriptions =
                       MapPut(@, shardID, Append(BucketOf(h[n], shardID), Envelope(s, id, rec)))]

\* a removal that moves the last element into place i
ShiftDownSwapsLast(arr, i) ==
    [k \in 1..Len(arr) |-> IF k = i THEN arr[Len(arr)] ELSE arr[k]]

\* a shift that starts one slot late and so drops the element after i
ShiftDownNext(arr, i) ==
    [k \in 1..Len(arr) |-> IF k > i /\ k < Len(arr) THEN arr[k + 1] ELSE arr[k]]

\* append(s[:i], s[i+1:]...) written into the backing array arr of s (1-based i):
\* the elements after i move one place down and the last place keeps its value
ShiftDown(arr, i) ==
    [k \in 1..Len(arr) |-> IF k >= i /\ k < Len(arr) THEN arr[k + 1] ELSE arr[k]]

\* The loop of Node.DeleteSubscription over s, from index i on.  The loop has
\* no break: it goes on over the original length of s, reading the backing
\* array that the appends have shifted.  st = [arr, hit]
RECURSIVE DeleteLoop(_, _, _)
DeleteLoop(st, i, id) ==
    IF i > Len(st.arr) THEN st
    ELSE IF st.arr[i].id # id THEN DeleteLoop(st, i + 1, id)
    ELSE DeleteLoop([arr |-> ShiftDown(st.arr, i), hit |-> TRUE], i + 1, id)

\* the value of n.subscriptions[shardID] after the loop
AfterDeleteLoop(s, id) ==
    LET st == DeleteLoop([arr |-> s, hit |-> FALSE], 1, id)
    IN  IF st.hit THEN SubSeq(st.arr, 1, Len(s) - 1) ELSE s

\* DeleteSubscription that leaves an emptied bucket in the map
DeleteSubscriptionKeepsBucket(h, n, id) ==
    IF n = NilPtr THEN h
    ELSE IF id \notin DOMAIN h[n].shards THEN h
    ELSE LET shardID == h[n].shards[id]
         IN  [h EXCEPT ![n].shards = MapDel(@, id),
                       ![n].subscriptions =
                           MapPut(@, shardID, AfterDeleteLoop(BucketOf(h[n], shardID), id))]

\* DeleteSubscription that drops the whole bucket of the id's shard
DeleteSubscriptionDropsBucket(h, n, id) ==
    IF n = NilPtr THEN h
    ELSE IF id \notin DOMAIN h[n].shards THEN h
    ELSE [h EXCEPT ![n].shards = MapDel(@, id),
                   ![n].subscriptions = MapDel(@, h[n].shards[id])]

\* Node.DeleteSubscription
DeleteSubscription(h, n, id) ==
    IF n = NilPtr THEN h
    ELSE IF id \notin DOMAIN h[n].shards THEN h
    ELSE LET shardID == h[n].shards[id]
             s == BucketOf(h[n], shardID)
             s2 == AfterDeleteLoop(s, id)
             subs1 == IF Len(s) = 0 THEN h[n].subscriptions
                      ELSE MapPut(h[n].subscriptions, shardID, s2)
             subs2 == IF Len(BucketOf([subscriptions |-> subs1], shardID)) = 0
                      THEN MapDel(subs1, shardID) ELSE subs1
         IN  [h EXCEPT ![n].shards = MapDel(@, id), ![n].subscriptions = subs2]

\* Node.ForEachSubscription: the calls of f, one per bucket, in the order of a
\* Go map range, which is any order
ForEachSubscription(h, n) ==
    IF n = NilPtr THEN {}
    ELSE {[shardID |-> shardID, s |-> h[n].subscriptions[shardID]] :
              shardID \in DOMAIN h[n].subscriptions}

----------------------------------------------------------------------------
(* Garbage collection: a node no pointer leads to is gone *)

RECURSIVE ReachFrom(_, _)
ReachFrom(h, n) ==
    {n} \cup UNION {ReachFrom(h, h[n].children[k]) : k \in DOMAIN h[n].children}

\* the heap restricted to what the root or one of the pointers in refs reaches
Collect(h, refs) ==
    LET keep == ReachFrom(h, RootPtr) \cup UNION {ReachFrom(h, r) : r \in refs \cap DOMAIN h}
    IN  [n \in keep |-> h[n]]

----------------------------------------------------------------------------
(* PubSub.Subscribe and the Unsubscriber it returns *)

\* the loop "for _, p := range c.path { n = n.AddChild(p) }"
RECURSIVE Walk(_, _, _)
Walk(h, n, p) ==
    IF Len(p) = 0 THEN [h |-> h, c |-> n]
    ELSE LET r == AddChild(h, n, Head(p)) IN Walk(r.h, r.c, Tail(p))

\* the body of Subscribe between Lock and Unlock: the heap afterwards
SubscribeBody(h, s, path, shardID, id, rec) ==
    LET w == Walk(h, RootPtr, path)
    IN  AddSubscription(w.h, w.c, s, shardID, id, rec)

\* PubSub.cleanupSubscriptionTree: [h |-> the heap afterwards, panic |-> whether
\* the call panicked (a nil dereference in ChildLen)]
RECURSIVE cleanupSubscriptionTree(_, _, _, _)
cleanupSubscriptionTree(h, n, id, p) ==
    IF Len(p) = 0 THEN [h |-> DeleteSubscription(h, n, id), panic |-> FALSE]
    ELSE LET child == FetchChild(h, n, Head(p))
             r == cleanupSubscriptionTree(h, child, id, Tail(p))
         IN  IF r.panic THEN r
             ELSE IF ChildLen(r.h, child) = Fault THEN [h |-> r.h, panic |-> TRUE]
             ELSE IF ChildLen(r.h, child) = 0 /\ SubscriptionLen(r.h, child) = 0
                  THEN [h |-> DeleteChild(r.h, n, Head(p)), panic |-> FALSE]
             ELSE r

----------------------------------------------------------------------------
(* Traversers and the Paths they return *)

NilTraverser == [kind |-> "nil"]

\* FlatPaths(p)
FlatPaths(p) == [kind |-> "FlatPaths", p |-> p]
\* NewPathsWithTraverser(paths, a)
NewPathsWithTraverser(paths, a) == [kind |-> "PathsWithTraverser", a |-> a, p |-> paths]
\* PathAndTraverser{Path, Traverser} and PathAndTraversers{...}
PathAndTraverser(path, a) == [Path |-> path, Traverser |-> a]
PathAndTraversers(t) == [kind |-> "PathAndTraversers", t |-> t]

NotOk == [path |-> "", nextTraverser |-> NilTraverser, ok |-> FALSE]

\* FlatPaths.At, PathsWithTraverser.At and PathAndTraversers.At (idx from 0)
At(paths, idx) ==
    CASE paths.kind = "FlatPaths" ->
            IF idx >= Len(paths.p) THEN NotOk
            ELSE [path |-> paths.p[idx + 1], nextTraverser |-> NilTraverser, ok |-> TRUE]
      [] paths.kind = "PathsWithTraverser" ->
            IF idx >= Len(paths.p) THEN NotOk
            ELSE [path |-> paths.p[idx + 1], nextTraverser |-> paths.a, ok |-> TRUE]
      [] paths.kind = "PathAndTraversers" ->
            IF idx >= Len(paths.t) THEN NotOk
            ELSE [path |-> paths.t[idx + 1].Path, nextTraverser |-> paths.t[idx + 1].Traverser,
                  ok |-> TRUE]

\* LinearTreeTraverser(a)
LinearTreeTraverser(a) == [kind |-> "LinearTreeTraverser", a |-> a]
\* the closure LinearTreeTraverser.buildTreeTraverser(remainingPath) returns
buildTreeTraverser(remainingPath) ==
    [kind |-> "buildTreeTraverser", remainingPath |-> remainingPath]
\* a TreeTraverserFunc of the caller: one that returns the Paths root at the
\* root (len(currentPath) == 0) and the Paths below everywhere else
TreeTraverserFunc(root, below) == [kind |-> "TreeTraverserFunc", root |-> root, below |-> below]

\* a closure that hands on the whole remainingPath, its first label included
buildTreeTraverserCallKeepsHead(remainingPath) ==
    IF Len(remainingPath) = 0 THEN FlatPaths(<<>>)
    ELSE NewPathsWithTraverser(<<Head(remainingPath)>>, buildTreeTraverser(remainingPath))

\* the body of the closure buildTreeTraverser returns
buildTreeTraverserCall(remainingPath) ==
    IF Len(remainingPath) = 0 THEN FlatPaths(<<>>)
    ELSE NewPathsWithTraverser(<<Head(remainingPath)>>, buildTreeTraverser(Tail(remainingPath)))

\* TreeTraverser.Traverse(data, currentPath) of each kind of traverser
Traverse(a, currentPath) ==
    CASE a.kind = "LinearTreeTraverser" -> buildTreeTraverserCall(a.a)
      [] a.kind = "buildTreeTraverser" -> buildTreeTraverserCall(a.remainingPath)
      [] a.kind = "TreeTraverserFunc" -> IF Len(currentPath) = 0 THEN a.root ELSE a.below

----------------------------------------------------------------------------
(* PubSub.mu.  w is the goroutine that holds the write lock (0: none), r   *)
(* the goroutines that hold the read lock.  Lock and RLock block: a call   *)
(* returns in a state where CanLock or CanRLock holds.  A blocked Lock of  *)
(* a sync.RWMutex also holds back the RLock calls that come after it; that *)
(* only removes interleavings and is left out.                             *)

\* mu: &sync.RWMutex{} of New
RWMutex == [kind |-> "RWMutex", w |-> 0, r |-> {}]
\* nopLock{}
nopLock == [kind |-> "nopLock", w |-> 0, r |-> {}]
\* an option that leaves the sync.RWMutex of New in place
WithRealMutex == RWMutex

\* the mu of a PubSub made by New(WithNoMutex())
WithNoMutex == nopLock

\* a Lock that does not wait for the readers
CanLockDespiteReaders(m) == m.kind = "nopLock" \/ m.w = 0

CanLock(m) == m.kind = "nopLock" \/ (m.w = 0 /\ m.r = {})
Lock(m, g) == IF m.kind = "nopLock" THEN m ELSE [m EXCEPT !.w = g]
Unlock(m, g) == IF m.kind = "nopLock" THEN m ELSE [m EXCEPT !.w = 0]
CanRLock(m) == m.kind = "nopLock" \/ m.w = 0
\* an RLock that does not count its reader
RLockUncounted(m, g) == m
RLock(m, g) == IF m.kind = "nopLock" THEN m ELSE [m EXCEPT !.r = @ \cup {g}]
RUnlock(m, g) == IF m.kind = "nopLock" THEN m ELSE [m EXCEPT !.r = @ \ {g}]

----------------------------------------------------------------------------
(* PubSub.Publish and PubSub.traversePublish, as a machine with the call   *)
(* stack written out.  A world w holds what a running Publish reads and    *)
(* writes: the heap, the lock and the Unsubscribers returned so far (a     *)
(* subscriber's Write may call Subscribe), its stack of traversePublish    *)
(* calls, its history map and, as ghosts, the log of the Write calls it    *)
(* has made and the Traverse calls it has made.  blocked: a Write of this  *)
(* Publish waits for the lock.                                             *)

\* a call traversePublish(d, next, a, n, l, history) about to start
Frame(n, a, l) ==
    [n |-> n, a |-> a, l |-> l, pc |-> "enter",
     keys |-> {}, ss |-> <<>>, i |-> 0, paths |-> FlatPaths(<<>>),
     shardID |-> "", raced |-> FALSE]

Top(w) == w.stack[Len(w.stack)]
SetTop(w, f) == [w EXCEPT !.stack[Len(w.stack)] = f]
Pop(w) == [w EXCEPT !.stack = SubSeq(@, 1, Len(@) - 1)]

\* The subscribers.  "s1" and "s2" have a Write that returns at once.  The
\* Write of "rs" calls Subscribe("s2", WithPath(ResubPath)) on the registry that
\* is publishing to it, as long as fewer than MaxSubscribes calls were made.
Resubscriber == "rs"
\* The Write of "ru" invokes the Unsubscriber that the Subscribe call which
\* registered it returned.
Reunsubscriber == "ru"
ResubPath == <<"b">>

\* the value rand.Int63() returns when it does not repeat a value: the code
\* only compares ids for equality, so one new value stands for every new value
FreshId(hs) == Cardinality({hs[k].id : k \in 1..Len(hs)}) + 1

\* the Unsubscriber a Subscribe call returns: the closure holds path and id;
\* invoked and inner (the call was made from inside a Write) are ghosts
Handle(path, id, inner) == [path |-> path, id |-> id, invoked |-> FALSE, inner |-> inner]

\* the node at path p below node n, nil if there is none
RECURSIVE NodeAt(_, _, _)
NodeAt(h, n, p) ==
    IF Len(p) = 0 THEN n ELSE NodeAt(h, FetchChild(h, n, Head(p)), Tail(p))

\* The Write of "rl" invokes the Unsubscriber that the latest Subscribe call
\* made so far returned.
UnsubscriberOfLatest == "rl"

\* the Write of subscriber s calls Subscribe or an Unsubscriber
Reentrant(s, hs) ==
    \/ s = Resubscriber /\ Len(hs) < MaxSubscribes
    \/ s = Reunsubscriber
    \/ s = UnsubscriberOfLatest

\* the Subscribe call whose Unsubscriber the Write of s invokes, s held by the
\* envelope of Subscribe call rec
Invokes(s, rec, hs) == IF s = Reunsubscriber THEN rec ELSE Len(hs)

\* The slice ss that the running "for _, x := range ss" of the top frame holds,
\* after DeleteSubscription(id) on node n.  The range has copied the slice
\* header (array, length) and reads each element from the array when it gets
\* to it; DeleteSubscription shifts that same array in place when the id is
\* in the bucket being ranged, which no Subscribe has appended to since the
\* range began (the resubscriber is never registered at ResubPath).
RangedAfterDelete(w, n, id) ==
    LET f == Top(w)
    IN  IF \/ f.pc # "write" \/ n = NilPtr \/ n # f.n
           \/ id \notin DOMAIN w.nodes[n].shards
        THEN f.ss
        ELSE IF w.nodes[n].shards[id] # "" THEN f.ss
        ELSE LET s == BucketOf(w.nodes[n], "")
                 st == DeleteLoop([arr |-> s, hit |-> FALSE], 1, id)
             IN  st.arr \o SubSeq(f.ss, Len(s) + 1, Len(f.ss))

\* Subscription.Write(d) of subscriber s, called by a running Publish with the
\* envelope of Subscribe call rec.  Subscribe and the Unsubscriber begin with
\* s.mu.Lock().
SubscriberWrite(w, s, rec) ==
    IF ~Reentrant(s, w.handles) THEN w
    ELSE IF ~CanLock(w.mu) THEN [w EXCEPT !.blocked = TRUE]
    ELSE IF s = Resubscriber
    THEN [w EXCEPT !.nodes = SubscribeBody(@, "s2", ResubPath, "", FreshId(w.handles),
                                           Len(w.handles) + 1),
                   !.handles = Append(@, Handle(ResubPath, FreshId(w.handles), TRUE))]
    ELSE LET k == Invokes(s, rec, w.handles)
             r == cleanupSubscriptionTree(w.nodes, RootPtr, w.handles[k].id,
                                          w.handles[k].path)
             ss == RangedAfterDelete(w, NodeAt(w.nodes, RootPtr, w.handles[k].path),
                                     w.handles[k].id)
         IN  [SetTop(w, [Top(w) EXCEPT !.ss = ss])
                 EXCEPT !.nodes = r.h, !.handles[k].invoked = TRUE, !.panic = r.panic]

\* x.Subscription.Write(d) for the envelope x found in bucket shardID of node n
WriteTo(w, x, n, shardID) ==
    SubscriberWrite([w EXCEPT !.log = Append(@, [rec |-> x.rec, n |-> n, shardID |-> shardID,
                                                 sub |-> x.sub])],
                    x.sub, x.rec)

RECURSIVE WriteToAll(_, _, _, _, _)
WriteToAll(w, subs, i, n, shardID) ==
    IF i > Len(subs) THEN w ELSE WriteToAll(WriteTo(w, subs[i], n, shardID), subs, i + 1, n, shardID)

\* a sharding algorithm that writes to every subscription it is given
BroadcastWrite(w, subs, n, shardID) == {WriteToAll(w, subs, 1, n, shardID)}

\* RandSharding.Write(data, subscriptions): one world per value of Intn;
\* Intn(0) panics
RandShardingWrite(w, subs, n, shardID) ==
    IF Len(subs) = 0 THEN {[w EXCEPT !.panic = TRUE]}
    ELSE {WriteTo(w, subs[idx + 1], n, shardID) : idx \in 0..(Len(subs) - 1)}

\* from the call of a.Traverse on: paths := a.Traverse(next, l), i := 0
ToPaths(w) ==
    LET f == Top(w)
    IN  [SetTop(w, [f EXCEPT !.pc = "paths", !.paths = Traverse(f.a, f.l), !.i = 0])
            EXCEPT !.calls = Append(@, [a |-> f.a, l |-> f.l])]

\* StepEnter without the history lookup: every arrival at a node emits
StepEnterNoHistory(w) ==
    LET f == Top(w)
    IN  IF f.n = NilPtr THEN {Pop(w)}
        ELSE {SetTop(w, [f EXCEPT !.pc = "range", !.keys = DOMAIN w.nodes[f.n].subscriptions])}

\* StepEnter that does not return from a nil node
StepEnterStaysAtNil(w) ==
    LET f == Top(w)
    IN  IF f.n = NilPtr THEN {w}
        ELSE IF f.n \in w.history THEN {ToPaths(w)}
        ELSE {SetTop(w, [f EXCEPT !.pc = "range", !.keys = DOMAIN w.nodes[f.n].subscriptions])}

\* StepEnter that returns from a node it has emitted at before
StepEnterSkipsVisited(w) ==
    LET f == Top(w)
    IN  IF f.n = NilPtr \/ f.n \in w.history THEN {Pop(w)}
        ELSE {SetTop(w, [f EXCEPT !.pc = "range", !.keys = DOMAIN w.nodes[f.n].subscriptions])}

\* the start of traversePublish: the nil check and the history lookup
StepEnter(w) ==
    LET f == Top(w)
    IN  IF f.n = NilPtr THEN {Pop(w)}
        ELSE IF f.n \in w.history THEN {ToPaths(w)}
        ELSE {SetTop(w, [f EXCEPT !.pc = "range", !.keys = DOMAIN w.nodes[f.n].subscriptions])}

\* One turn of the loop of Node.ForEachSubscription, "for shardID, s := range
\* n.subscriptions", with the callback of traversePublish up to its loop over
\* an unsharded bucket.  The map is ranged in any order; a key deleted before
\* it is reached is not produced.
StepRange(w) ==
    LET f == Top(w)
        left == f.keys \cap DOMAIN w.nodes[f.n].subscriptions
    IN  IF left = {} THEN {ToPaths([w EXCEPT !.history = @ \cup {f.n}])}
        ELSE UNION {
            LET ss == w.nodes[f.n].subscriptions[shardID]
                g == [f EXCEPT !.keys = left \ {shardID}]
            IN  IF shardID = ""
                THEN {SetTop(w, [g EXCEPT !.pc = "write", !.ss = ss, !.i = 0])}
                ELSE {SetTop(w, [g EXCEPT !.pc = "Intn", !.ss = ss, !.shardID = shardID,
                                          !.raced = w.racing])}
            : shardID \in left}

\* s.shardingAlgorithm.Write(d, subs) from inside r.Rand.Intn on.  The Rand of
\* rand.New(rand.NewSource(seed)) has no lock of its own: once the call has
\* run while another goroutine was inside Intn of the same Rand, the source's
\* state was read and written unsynchronised, and the call yields any index
\* or panics with an index out of range inside the source.
StepIntn(w) ==
    LET f == Top(w)
        g == [f EXCEPT !.pc = "range", !.ss = <<>>, !.shardID = "", !.raced = FALSE]
    IN  RandShardingWrite(SetTop(w, g), f.ss, f.n, f.shardID)
            \cup (IF f.raced THEN {[w EXCEPT !.panic = TRUE]} ELSE {})

\* StepWrite that leaves the loop after the first envelope
StepWriteFirstOnly(w) ==
    LET f == Top(w)
    IN  IF f.i >= 1 \/ f.i >= Len(f.ss)
        THEN {SetTop(w, [f EXCEPT !.pc = "range", !.ss = <<>>, !.i = 0])}
        ELSE {WriteTo(SetTop(w, [f EXCEPT !.i = f.i + 1]), f.ss[f.i + 1], f.n, "")}

\* one turn of "for _, x := range ss { x.Subscription.Write(d) }"
StepWrite(w) ==
    LET f == Top(w)
    IN  IF f.i >= Len(f.ss) THEN {SetTop(w, [f EXCEPT !.pc = "range", !.ss = <<>>, !.i = 0])}
        ELSE {WriteTo(SetTop(w, [f EXCEPT !.i = f.i + 1]), f.ss[f.i + 1], f.n, "")}

\* StepPaths that goes on with the replacement traverser for the later labels
StepPathsKeepsReplacement(w) ==
    LET f == Top(w)
        r == At(f.paths, f.i)
        nextA == IF r.nextTraverser = NilTraverser THEN f.a ELSE r.nextTraverser
        c == FetchChild(w.nodes, f.n, r.path)
    IN  IF ~r.ok THEN {Pop(w)}
        ELSE {[SetTop(w, [f EXCEPT !.i = f.i + 1, !.a = nextA])
                  EXCEPT !.stack = Append(@, Frame(c, nextA, Append(f.l, r.path)))]}

\* one turn of "for i := 0; ; i++" over paths, up to the recursive call
StepPaths(w) ==
    LET f == Top(w)
        r == At(f.paths, f.i)
        nextA == IF r.nextTraverser = NilTraverser THEN f.a ELSE r.nextTraverser
        c == FetchChild(w.nodes, f.n, r.path)
    IN  IF ~r.ok THEN {Pop(w)}
        ELSE {[SetTop(w, [f EXCEPT !.i = f.i + 1])
                  EXCEPT !.stack = Append(@, Frame(c, nextA, Append(f.l, r.path)))]}

\* PubSub.traversePublish: the worlds one step of the running call leads to
traversePublish(w) ==
    CASE Top(w).pc = "enter" -> StepEnter(w)
      [] Top(w).pc = "range" -> StepRange(w)
      [] Top(w).pc = "write" -> StepWrite(w)
      [] Top(w).pc = "Intn" -> StepIntn(w)
      [] Top(w).pc = "paths" -> StepPaths(w)

\* the world of a Publish(d, a) that has taken the read lock:
\* traversePublish(d, d, a, s.n, nil, make(map[*node.Node]bool))
PublishStart(h, hs, m, a) ==
    [nodes |-> h, handles |-> hs, mu |-> m, stack |-> <<Frame(RootPtr, a, <<>>)>>,
     history |-> {}, log |-> <<>>, calls |-> <<>>, panic |-> FALSE, blocked |-> FALSE,
     racing |-> FALSE]

\* the Publish of world w has returned, has panicked or waits for ever
Ended(w) == w.panic \/ w.blocked \/ Len(w.stack) = 0

\* one step of every running Publish among the worlds S
StepAll(S) == UNION {IF Ended(w) THEN {w} ELSE traversePublish(w) : w \in S}

\* 2^n steps of every running Publish among the worlds S
RECURSIVE StepsAll(_, _)
StepsAll(S, n) == IF n = 0 THEN StepAll(S) ELSE StepsAll(StepsAll(S, n - 1), n - 1)

RECURSIVE RunAll(_)
RunAll(S) == IF \A w \in S : Ended(w) THEN S ELSE RunAll(StepsAll(S, 3))

\* the worlds in which the Publish has returned (or panicked)
PublishRun(w) == RunAll({w})

----------------------------------------------------------------------------
(* The calls of one goroutine that uses the registry, each run from its    *)
(* Lock or RLock to its Unlock.                                            *)

\* The values rand.Int63() is taken to return.  The code only compares ids for
\* equality, so one value not issued before stands for every such value.
\* FreshIds: the generator returns a value it has not returned before.
\* AnyIds: it may also return again a value it has returned.
IssuedIds == {handles[k].id : k \in 1..Len(handles)}
FreshIds == {Cardinality(IssuedIds) + 1}
AnyIds == IssuedIds \cup FreshIds

\* The subscriber the k-th Subscribe call passes.  The registry stores a
\* subscriber and calls its Write, and never compares or inspects it: the
\* caller here takes turns between two subscribers.
SubOf(k) == IF k % 2 = 1 THEN "s1" ELSE "s2"

\* the traversers Publish is tried with
AllLabels(ls) == TreeTraverserFunc(FlatPaths(ls), FlatPaths(ls))
Traversers ==
    {LinearTreeTraverser(<<"a", "b">>), LinearTreeTraverser(<<"b", "a", "a">>),
     AllLabels(<<"a", "a">>), AllLabels(<<"a", "b", "a">>),
     TreeTraverserFunc(FlatPaths(<<"b", "b">>), FlatPaths(<<>>))}

\* lastOp: kind, the call; stale, an Unsubscriber that had been invoked before;
\* panic, the call panicked; changed, the call changed the trie; afterSub, an
\* Unsubscriber invoked right after the Subscribe that returned it
\* recv, ret, child and f are set by the calls of the node package made directly:
\* the receiver, the number or the node returned, and the calls of f
NoOp == [kind |-> "none", stale |-> FALSE, panic |-> FALSE, changed |-> FALSE,
         afterSub |-> FALSE, recv |-> NilPtr, ret |-> 0, child |-> NilPtr, f |-> {}]
\* pub: a, the traverser; log, the Write calls; history, the nodes emitted at;
\* h0, the number of Subscribe calls that had returned when the Publish began
\* calls, the calls of Traverse: the traverser and the currentPath of each
NoPub == [a |-> NilTraverser, log |-> <<>>, history |-> {}, calls |-> <<>>, h0 |-> 0]

\* a goroutine that is in no call
Idle ==
    [pc |-> "idle", op |-> "none", s |-> "", path |-> <<>>, shardID |-> "", k |-> 0,
     a |-> NilTraverser, n |-> NilPtr, i |-> 0, stack |-> <<>>, history |-> {},
     log |-> <<>>, calls |-> <<>>, panic |-> FALSE, blocked |-> FALSE, h0 |-> 0]

\* Subscribe(s, WithPath(path), WithShardID(shardID)), rand.Int63() giving id
Subscribe(s, path, shardID, id) ==
    /\ Len(handles) < MaxSubscribes
    /\ nodes' = SubscribeBody(nodes, s, path, shardID, id, Len(handles) + 1)
    /\ handles' = Append(handles, Handle(path, id, FALSE))
    /\ lastOp' = [NoOp EXCEPT !.kind = "subscribe", !.changed = TRUE]
    /\ snap' = nodes
    /\ pub' = NoPub
    /\ UNCHANGED <<mu, gor>>

\* invoking the Unsubscriber that the k-th Subscribe call returned (the closure
\* reads the call's id and path); invoked is a ghost
Unsubscribe(k) ==
    /\ LET r == cleanupSubscriptionTree(nodes, RootPtr, handles[k].id, handles[k].path)
           follows == lastOp.kind = "subscribe" /\ k = Len(handles)
       IN  /\ nodes' = Collect(r.h, {})
           /\ lastOp' = [NoOp EXCEPT !.kind = "unsubscribe", !.stale = handles[k].invoked,
                                      !.panic = r.panic,
                                      !.changed = Collect(r.h, {}) # nodes,
                                      !.afterSub = follows]
           /\ snap' = IF follows THEN snap ELSE EmptyMap
    /\ handles' = [handles EXCEPT ![k].invoked = TRUE]
    /\ pub' = NoPub
    /\ UNCHANGED <<mu, gor>>

\* Publish(d, a)
Publish(a) ==
    /\ \E w \in PublishRun(PublishStart(nodes, handles, RLock(mu, 1), a)) :
          /\ pub' = [a |-> a, log |-> w.log, history |-> w.history, calls |-> w.calls,
                      h0 |-> Len(handles)]
          /\ lastOp' = [NoOp EXCEPT !.kind = "publish", !.panic = w.panic]
          /\ nodes' = Collect(w.nodes, {})
          /\ handles' = w.handles
    /\ snap' = EmptyMap
    /\ UNCHANGED <<mu, gor>>

Init ==
    /\ nodes = [n \in {RootPtr} |-> New]
    /\ handles = <<>>
    /\ lastOp = NoOp
    /\ snap = EmptyMap
    /\ pub = NoPub
    /\ mu = RWMutex
    /\ gor = [g \in {1} |-> Idle]

\* one goroutine calling Subscribe, the Unsubscribers and Publish in any order,
\* with a generator that does not repeat a value
Next ==
    \/ \E path \in Paths, shardID \in ShardIDs, id \in FreshIds :
           Subscribe(SubOf(Len(handles) + 1), path, shardID, id)
    \/ \E k \in 1..Len(handles) : Unsubscribe(k)
    \/ \E a \in Traversers : Publish(a)

Spec == Init /\ [][Next]_vars

\* one goroutine calling Subscribe and the Unsubscribers in any order, with a
\* generator that may repeat a value
NextAnyId ==
    \/ \E path \in Paths, shardID \in ShardIDs, id \in AnyIds :
           Subscribe(SubOf(Len(handles) + 1), path, shardID, id)
    \/ \E k \in 1..Len(handles) : Unsubscribe(k)

SpecAnyId == Init /\ [][NextAnyId]_vars

\* traversers that hand over to another traverser
\* a traverser that yields the labels ls below the root
Below(ls) == TreeTraverserFunc(FlatPaths(<<>>), FlatPaths(ls))
\* at the root: label "a" with the replacement Below(<<"a">>) and label "b" with
\* none; below the root: label "b"
ReplacingTraverser ==
    TreeTraverserFunc(
        PathAndTraversers(<<PathAndTraverser("a", Below(<<"a">>)),
                            PathAndTraverser("b", NilTraverser)>>),
        FlatPaths(<<"b">>))
\* at the root: label "a" twice, first with a traverser that yields nothing
\* below it, then with one that yields "b" below it
RevisitingTraverser ==
    TreeTraverserFunc(
        PathAndTraversers(<<PathAndTraverser("a", Below(<<>>)),
                            PathAndTraverser("a", Below(<<"b">>))>>),
        FlatPaths(<<>>))

WalkTraversers ==
    {ReplacingTraverser, RevisitingTraverser,
     LinearTreeTraverser(<<"a", "b", "a">>), LinearTreeTraverser(<<"b">>),
     LinearTreeTraverser(<<>>)}

\* one goroutine calling Subscribe, the Unsubscribers and Publish in any order,
\* Publish with the traversers above
NextWalk ==
    \/ \E path \in Paths, shardID \in ShardIDs, id \in FreshIds :
           Subscribe(SubOf(Len(handles) + 1), path, shardID, id)
    \/ \E k \in 1..Len(handles) : Unsubscribe(k)
    \/ \E a \in WalkTraversers : Publish(a)

SpecWalk == Init /\ [][NextWalk]_vars

----------------------------------------------------------------------------
(* The node package used directly: each method of Node called on a node of *)
(* a small trie or on the nil *Node.                                        *)

MaxNodeDepth == 1
MaxNodeSubscribes == 2

\* the receivers: the nodes of the trie and nil
Receivers == DOMAIN nodes \cup {NilPtr}

\* what a call on receiver n leaves: the heap h, the number ret and the node
\* child it returned, the calls of f it made
NodeCall(kind, n, h, ret, child, f) ==
    /\ nodes' = Collect(h, {})
    /\ lastOp' = [NoOp EXCEPT !.kind = kind, !.recv = n, !.ret = ret, !.child = child,
                              !.f = f, !.panic = (ret = Fault), !.changed = (h # nodes)]
    /\ UNCHANGED <<snap, pub, mu, gor>>

NodeAddChild(n, key) ==
    /\ n = NilPtr \/ Len(n.path) < MaxNodeDepth
    /\ NodeCall("AddChild", n, AddChild(nodes, n, key).h, 0, AddChild(nodes, n, key).c, {})
    /\ UNCHANGED handles

NodeFetchChild(n, key) ==
    /\ NodeCall("FetchChild", n, nodes, 0, FetchChild(nodes, n, key), {})
    /\ UNCHANGED handles

NodeDeleteChild(n, key) ==
    /\ NodeCall("DeleteChild", n, DeleteChild(nodes, n, key), 0, NilPtr, {})
    /\ UNCHANGED handles

NodeChildLen(n) ==
    /\ NodeCall("ChildLen", n, nodes, ChildLen(nodes, n), NilPtr, {})
    /\ UNCHANGED handles

\* AddSubscription returns 0 on nil and the new id otherwise
NodeAddSubscription(n, s, shardID, id) ==
    /\ Len(handles) < MaxNodeSubscribes
    /\ NodeCall("AddSubscription", n,
                AddSubscription(nodes, n, s, shardID, id, Len(handles) + 1),
                IF n = NilPtr THEN 0 ELSE id, NilPtr, {})
    /\ handles' = IF n = NilPtr THEN handles ELSE Append(handles, Handle(n.path, id, FALSE))

NodeDeleteSubscription(n, id) ==
    /\ NodeCall("DeleteSubscription", n, DeleteSubscription(nodes, n, id), 0, NilPtr, {})
    /\ UNCHANGED handles

NodeSubscriptionLen(n) ==
    /\ NodeCall("SubscriptionLen", n, nodes, SubscriptionLen(nodes, n), NilPtr, {})
    /\ UNCHANGED handles

NodeForEachSubscription(n) ==
    /\ NodeCall("ForEachSubscription", n, nodes, 0, NilPtr, ForEachSubscription(nodes, n))
    /\ UNCHANGED handles

NextNode ==
    \/ \E n \in Receivers, key \in Labels : NodeAddChild(n, key)
    \/ \E n \in Receivers, key \in Labels : NodeFetchChild(n, key)
    \/ \E n \in Receivers, key \in Labels : NodeDeleteChild(n, key)
    \/ \E n \in Receivers : NodeChildLen(n)
    \/ \E n \in Receivers, shardID \in ShardIDs, id \in FreshIds :
           NodeAddSubscription(n, SubOf(Len(handles) + 1), shardID, id)
    \/ \E n \in Receivers, id \in AnyIds : NodeDeleteSubscription(n, id)
    \/ \E n \in Receivers : NodeSubscriptionLen(n)
    \/ \E n \in Receivers : NodeForEachSubscription(n)

SpecNode == Init /\ [][NextNode]_vars

----------------------------------------------------------------------------
(* The calls taken apart into the steps between which another goroutine    *)
(* can run: the call, the Lock or RLock, the steps under the lock, the     *)
(* deferred Unlock or RUnlock.                                             *)

\* goroutine g is inside r.Rand.Intn
InIntn(g) ==
    /\ gor[g].pc = "traverse"
    /\ Len(gor[g].stack) > 0
    /\ gor[g].stack[Len(gor[g].stack)].pc = "Intn"

\* the world of goroutine g's running Publish; racing: another goroutine is
\* inside Intn of the registry's one Rand
World(g) ==
    [nodes |-> nodes, handles |-> handles, mu |-> mu, stack |-> gor[g].stack,
     history |-> gor[g].history, log |-> gor[g].log, calls |-> gor[g].calls,
     panic |-> gor[g].panic, blocked |-> gor[g].blocked,
     racing |-> \E g2 \in DOMAIN gor \ {g} : InIntn(g2)]

\* the nodes the goroutines gs hold a pointer to
Refs(gs) ==
    UNION {{gs[g].n} \cup {gs[g].stack[j].n : j \in 1..Len(gs[g].stack)} : g \in DOMAIN gs}

\* the Subscribe calls that have not yet appended their record
Subscribing == {g \in DOMAIN gor : gor[g].op = "Subscribe" /\ gor[g].pc \in {"Lock", "AddChild"}}

\* goroutine g calls Subscribe(s, WithPath(path), WithShardID(shardID)): the
\* options are read into c
GoSubscribe(g, s, path, shardID, max) ==
    /\ gor[g].pc = "idle"
    /\ Len(handles) + Cardinality(Subscribing) < max
    /\ gor' = [gor EXCEPT ![g] = [Idle EXCEPT !.pc = "Lock", !.op = "Subscribe", !.s = s,
                                              !.path = path, !.shardID = shardID]]
    /\ lastOp' = NoOp
    /\ pub' = NoPub
    /\ UNCHANGED <<nodes, handles, snap, mu>>

\* goroutine g invokes the Unsubscriber of the k-th Subscribe call
GoUnsubscribe(g, k) ==
    /\ gor[g].pc = "idle"
    /\ gor' = [gor EXCEPT ![g] = [Idle EXCEPT !.pc = "Lock", !.op = "Unsubscribe", !.k = k]]
    /\ lastOp' = NoOp
    /\ pub' = NoPub
    /\ UNCHANGED <<nodes, handles, snap, mu>>

\* goroutine g calls Publish(d, a)
GoPublish(g, a) ==
    /\ gor[g].pc = "idle"
    /\ gor' = [gor EXCEPT ![g] = [Idle EXCEPT !.pc = "RLock", !.op = "Publish", !.a = a]]
    /\ lastOp' = NoOp
    /\ pub' = NoPub
    /\ UNCHANGED <<nodes, handles, snap, mu>>

\* s.mu.Lock() returns in Subscribe or in the Unsubscriber
GoLock(g) ==
    /\ gor[g].pc = "Lock"
    /\ CanLock(mu)
    /\ mu' = Lock(mu, g)
    /\ gor' = [gor EXCEPT ![g].pc = IF gor[g].op = "Subscribe" THEN "AddChild" ELSE "cleanup",
                          ![g].n = IF gor[g].op = "Subscribe" THEN RootPtr ELSE NilPtr]
    /\ UNCHANGED <<nodes, handles, lastOp, snap, pub>>

\* one turn of "for _, p := range c.path { n = n.AddChild(p) }"
GoAddChild(g) ==
    /\ gor[g].pc = "AddChild"
    /\ gor[g].i < Len(gor[g].path)
    /\ LET r == AddChild(nodes, gor[g].n, gor[g].path[gor[g].i + 1])
       IN  /\ nodes' = r.h
           /\ gor' = [gor EXCEPT ![g].n = r.c, ![g].i = gor[g].i + 1]
    /\ UNCHANGED <<handles, lastOp, snap, pub, mu>>

\* id := n.AddSubscription(sub, c.shardID) and the closure that is returned
GoAddSubscription(g) ==
    /\ gor[g].pc = "AddChild"
    /\ gor[g].i = Len(gor[g].path)
    /\ nodes' = AddSubscription(nodes, gor[g].n, gor[g].s, gor[g].shardID, FreshId(handles),
                                Len(handles) + 1)
    /\ handles' = Append(handles, Handle(gor[g].path, FreshId(handles), FALSE))
    /\ gor' = [gor EXCEPT ![g].pc = "Unlock", ![g].n = NilPtr]
    /\ UNCHANGED <<lastOp, snap, pub, mu>>

\* s.cleanupSubscriptionTree(s.n, id, c.path) in the Unsubscriber
GoCleanup(g) ==
    /\ gor[g].pc = "cleanup"
    /\ LET k == gor[g].k
           r == cleanupSubscriptionTree(nodes, RootPtr, handles[k].id, handles[k].path)
       IN  /\ nodes' = Collect(r.h, Refs(gor))
           /\ gor' = [gor EXCEPT ![g].pc = "Unlock", ![g].panic = r.panic]
           /\ handles' = [handles EXCEPT ![k].invoked = TRUE]
    /\ UNCHANGED <<lastOp, snap, pub, mu>>

\* the deferred s.mu.Unlock(): Subscribe or the Unsubscriber returns
GoUnlock(g) ==
    /\ gor[g].pc = "Unlock"
    /\ mu' = Unlock(mu, g)
    /\ lastOp' = [NoOp EXCEPT !.kind = IF gor[g].op = "Subscribe" THEN "subscribe"
                                       ELSE "unsubscribe",
                              !.panic = gor[g].panic]
    /\ pub' = NoPub
    /\ gor' = [gor EXCEPT ![g] = Idle]
    /\ UNCHANGED <<nodes, handles, snap>>

\* s.mu.RLock() returns in Publish, and traversePublish is called
GoRLock(g) ==
    /\ gor[g].pc = "RLock"
    /\ CanRLock(mu)
    /\ mu' = RLock(mu, g)
    /\ LET w == PublishStart(nodes, handles, RLock(mu, g), gor[g].a)
       IN  gor' = [gor EXCEPT ![g].pc = "traverse", ![g].stack = w.stack,
                              ![g].h0 = Len(handles)]
    /\ UNCHANGED <<nodes, handles, lastOp, snap, pub>>

\* one step of the running traversePublish of goroutine g
GoTraverse(g) ==
    /\ gor[g].pc = "traverse"
    /\ Len(gor[g].stack) > 0 /\ ~gor[g].panic /\ ~gor[g].blocked
    /\ \E v \in traversePublish(World(g)) :
          /\ nodes' = v.nodes
          /\ handles' = v.handles
          /\ LET enters == Len(v.stack) > 0 /\ v.stack[Len(v.stack)].pc = "Intn"
             IN  gor' = [g2 \in DOMAIN gor |->
                            IF g2 = g
                            THEN [gor[g] EXCEPT !.stack = v.stack, !.history = v.history,
                                                !.log = v.log, !.calls = v.calls,
                                                !.panic = v.panic, !.blocked = v.blocked]
                            ELSE IF enters /\ InIntn(g2)
                            THEN [gor[g2] EXCEPT !.stack[Len(gor[g2].stack)].raced = TRUE]
                            ELSE gor[g2]]
    /\ UNCHANGED <<lastOp, snap, pub, mu>>

\* the deferred s.mu.RUnlock(): Publish returns
GoRUnlock(g) ==
    /\ gor[g].pc = "traverse"
    /\ Len(gor[g].stack) = 0 \/ gor[g].panic
    /\ mu' = RUnlock(mu, g)
    /\ pub' = [a |-> gor[g].a, log |-> gor[g].log, history |-> gor[g].history,
               calls |-> gor[g].calls, h0 |-> gor[g].h0]
    /\ lastOp' = [NoOp EXCEPT !.kind = "publish", !.panic = gor[g].panic]
    /\ gor' = [gor EXCEPT ![g] = Idle]
    /\ UNCHANGED <<nodes, handles, snap>>

\* a step of a call of goroutine g that is under way
GoRun(g) ==
    \/ GoLock(g)
    \/ GoAddChild(g)
    \/ GoAddSubscription(g)
    \/ GoCleanup(g)
    \/ GoUnlock(g)
    \/ GoRLock(g)
    \/ GoTraverse(g)
    \/ GoRUnlock(g)

\* the state after New(), with two goroutines that use the registry
InitLock ==
    /\ nodes = [n \in {RootPtr} |-> New]
    /\ handles = <<>>
    /\ lastOp = NoOp
    /\ snap = EmptyMap
    /\ pub = NoPub
    /\ mu = RWMutex
    /\ gor = [g \in {1, 2} |-> Idle]

\* what the two goroutines call
LockPaths == {<<>>, <<"a">>, <<"a", "b">>}
LockTraversers == {LinearTreeTraverser(<<"a", "b">>), AllLabels(<<"a">>)}

NextLock ==
    \/ \E g \in DOMAIN gor, path \in LockPaths :
           GoSubscribe(g, SubOf(Len(handles) + 1), path, "", MaxLockSubscribes)
    \/ \E g \in DOMAIN gor, k \in 1..Len(handles) : GoUnsubscribe(g, k)
    \/ \E g \in DOMAIN gor, a \in LockTraversers : GoPublish(g, a)
    \/ \E g \in DOMAIN gor : GoLock(g)
    \/ \E g \in DOMAIN gor : GoAddChild(g)
    \/ \E g \in DOMAIN gor : GoAddSubscription(g)
    \/ \E g \in DOMAIN gor : GoCleanup(g)
    \/ \E g \in DOMAIN gor : GoUnlock(g)
    \/ \E g \in DOMAIN gor : GoRLock(g)
    \/ \E g \in DOMAIN gor : GoTraverse(g)
    \/ \E g \in DOMAIN gor : GoRUnlock(g)

SpecLock == InitLock /\ [][NextLock]_vars

\* two goroutines whose subscriptions are sharded, so that every delivery goes
\* through RandSharding.Write
RandPaths == {<<>>, <<"a">>}
RandTraversers == {LinearTreeTraverser(<<"a">>), LinearTreeTraverser(<<>>)}

NextRand ==
    \/ \E g \in DOMAIN gor, path \in RandPaths :
           GoSubscribe(g, SubOf(Len(handles) + 1), path, "g", MaxLockSubscribes)
    \/ \E g \in DOMAIN gor, k \in 1..Len(handles) : GoUnsubscribe(g, k)
    \/ \E g \in DOMAIN gor, a \in RandTraversers : GoPublish(g, a)
    \/ \E g \in DOMAIN gor : GoLock(g)
    \/ \E g \in DOMAIN gor : GoAddChild(g)
    \/ \E g \in DOMAIN gor : GoAddSubscription(g)
    \/ \E g \in DOMAIN gor : GoCleanup(g)
    \/ \E g \in DOMAIN gor : GoUnlock(g)
    \/ \E g \in DOMAIN gor : GoRLock(g)
    \/ \E g \in DOMAIN gor : GoTraverse(g)
    \/ \E g \in DOMAIN gor : GoRUnlock(g)

SpecRand == InitLock /\ [][NextRand]_vars

\* two goroutines and subscribers whose Write calls back into the registry:
\* the subscriber, the path and the shard id of each Subscribe call
LockWriteSubscribes ==
    {<<Resubscriber, <<>>, "">>, <<Reunsubscriber, <<>>, "g">>,
     <<Reunsubscriber, <<"a">>, "">>, <<"s1", <<>>, "">>}
LockWriteTraversers == {LinearTreeTraverser(<<"a">>), LinearTreeTraverser(<<>>)}

NextLockWrite ==
    \/ \E g \in DOMAIN gor, x \in LockWriteSubscribes :
           GoSubscribe(g, x[1], x[2], x[3], MaxLockSubscribes)
    \/ \E g \in DOMAIN gor, k \in 1..Len(handles) : GoUnsubscribe(g, k)
    \/ \E g \in DOMAIN gor, a \in LockWriteTraversers : GoPublish(g, a)
    \/ \E g \in DOMAIN gor : GoLock(g)
    \/ \E g \in DOMAIN gor : GoAddChild(g)
    \/ \E g \in DOMAIN gor : GoAddSubscription(g)
    \/ \E g \in DOMAIN gor : GoCleanup(g)
    \/ \E g \in DOMAIN gor : GoUnlock(g)
    \/ \E g \in DOMAIN gor : GoRLock(g)
    \/ \E g \in DOMAIN gor : GoTraverse(g)
    \/ \E g \in DOMAIN gor : GoRUnlock(g)

SpecLockWrite == InitLock /\ [][NextLockWrite]_vars

\* one goroutine, the real lock, subscribers whose Write returns, and
\* traversers that yield a label at every depth, one of them the same label
\* twice at every level; the goroutine is scheduled
TermPaths == {<<"a">>, <<"a", "a">>, <<"a", "b">>}
TermTraversers ==
    {AllLabels(<<"a", "a">>), AllLabels(<<"b", "a">>), LinearTreeTraverser(<<"a", "a", "a">>)}

NextTerm ==
    \/ \E g \in DOMAIN gor, path \in TermPaths, shardID \in ShardIDs :
           GoSubscribe(g, SubOf(Len(handles) + 1), path, shardID, MaxLockSubscribes)
    \/ \E g \in DOMAIN gor, k \in 1..Len(handles) : GoUnsubscribe(g, k)
    \/ \E g \in DOMAIN gor, a \in TermTraversers : GoPublish(g, a)
    \/ \E g \in DOMAIN gor : GoLock(g)
    \/ \E g \in DOMAIN gor : GoAddChild(g)
    \/ \E g \in DOMAIN gor : GoAddSubscription(g)
    \/ \E g \in DOMAIN gor : GoCleanup(g)
    \/ \E g \in DOMAIN gor : GoUnlock(g)
    \/ \E g \in DOMAIN gor : GoRLock(g)
    \/ \E g \in DOMAIN gor : GoTraverse(g)
    \/ \E g \in DOMAIN gor : GoRUnlock(g)

SpecTerm == Init /\ [][NextTerm]_vars /\ WF_vars(GoRun(1))

\* the state after New(WithNoMutex()), with one goroutine that uses the registry
InitNoLock ==
    /\ nodes = [n \in {RootPtr} |-> New]
    /\ handles = <<>>
    /\ lastOp = NoOp
    /\ snap = EmptyMap
    /\ pub = NoPub
    /\ mu = WithNoMutex
    /\ gor = [g \in {1} |-> Idle]

\* what the goroutine calls: the resubscribing subscriber is registered at a
\* path disjoint from ResubPath, a plain subscriber at ResubPath
NoLockSubscribes ==
    {<<Resubscriber, <<"a">>>>, <<"s1", <<"b">>>>}
NoLockTraversers ==
    {AllLabels(<<"a", "b">>), AllLabels(<<"b", "a">>), LinearTreeTraverser(<<"b">>)}

NextNoLock ==
    \/ \E g \in DOMAIN gor, x \in NoLockSubscribes, shardID \in ShardIDs :
           GoSubscribe(g, x[1], x[2], shardID, MaxSubscribes)
    \/ \E g \in DOMAIN gor, k \in 1..Len(handles) : GoUnsubscribe(g, k)
    \/ \E g \in DOMAIN gor, a \in NoLockTraversers : GoPublish(g, a)
    \/ \E g \in DOMAIN gor : GoLock(g)
    \/ \E g \in DOMAIN gor : GoAddChild(g)
    \/ \E g \in DOMAIN gor : GoAddSubscription(g)
    \/ \E g \in DOMAIN gor : GoCleanup(g)
    \/ \E g \in DOMAIN gor : GoUnlock(g)
    \/ \E g \in DOMAIN gor : GoRLock(g)
    \/ \E g \in DOMAIN gor : GoTraverse(g)
    \/ \E g \in DOMAIN gor : GoRUnlock(g)

\* the goroutine is scheduled: a call that can take a step takes it
SpecNoLock == InitNoLock /\ [][NextNoLock]_vars /\ WF_vars(GoRun(1))

\* New(WithNoMutex()) used by one goroutine, with subscribers whose Write
\* invokes an Unsubscriber: their own, or the one returned last
UnsubSubscribers == {"s1", Reunsubscriber, UnsubscriberOfLatest}
UnsubPaths == {<<>>, <<"a">>}
UnsubTraversers == {LinearTreeTraverser(<<"a">>), LinearTreeTraverser(<<>>)}

NextUnsub ==
    \/ \E s \in UnsubSubscribers, path \in UnsubPaths, shardID \in ShardIDs, id \in FreshIds :
           Subscribe(s, path, shardID, id)
    \/ \E k \in 1..Len(handles) : Unsubscribe(k)
    \/ \E a \in UnsubTraversers : Publish(a)

SpecUnsub == InitNoLock /\ [][NextUnsub]_vars

----------------------------------------------------------------------------
(* What the claims speak of *)

\* the ordinals of the Subscribe calls whose Unsubscriber has not been invoked
Live == {k \in 1..Len(handles) : ~handles[k].invoked}

\* how many Write calls the last Publish made on the record of Subscribe call k
Writes(k) == Cardinality({i \in 1..Len(pub.log) : pub.log[i].rec = k})

\* the records in the bucket shardID of node n of heap h, as a set of ordinals
RecsIn(h, n, shardID) ==
    {BucketOf(h[n], shardID)[i].rec : i \in 1..Len(BucketOf(h[n], shardID))}

\* the last Publish was given a traverser that yields a label twice at one level
Duplicating(a) ==
    /\ a.kind = "TreeTraverserFunc"
    /\ a.root.kind = "FlatPaths"
    /\ \E i, j \in 1..Len(a.root.p) : i # j /\ a.root.p[i] = a.root.p[j]

\* C1: a single Publish calls Write at most once on each subscription record,
\* however many branches of the traverser (duplicate labels at one level
\* included) reach the record's node.
C1_AtMostOncePerPublish ==
    lastOp.kind = "publish" => \A k \in 1..Len(handles) : Writes(k) <= 1

\* C1 witness: a Publish whose traverser yielded the label "a" twice at the
\* root wrote to a record held by the node at ["a"].
C1_Witness ==
    /\ lastOp.kind = "publish"
    /\ Duplicating(pub.a)
    /\ pub.a.root.p[1] = "a" /\ pub.a.root.p[2] = "a"
    /\ \E i \in 1..Len(pub.log) : pub.log[i].n = Ptr(<<"a">>, 0)

\* C2: invoking an Unsubscriber a second time is a silent no-op on every path,
\* a path whose nodes the first invocation pruned included: the call returns
\* without a panic and leaves the trie as it was.
C2_StaleHandleIsNoOp ==
    (lastOp.kind = "unsubscribe" /\ lastOp.stale) => (~lastOp.panic /\ ~lastOp.changed)

\* a node without children that holds no subscription: an empty index or no
\* record in any bucket
IsEmptyNode(h, n) ==
    /\ ChildLen(h, n) = 0
    /\ \/ SubscriptionLen(h, n) = 0
       \/ \A shardID \in DOMAIN h[n].subscriptions : Len(h[n].subscriptions[shardID]) = 0

\* C3: after an Unsubscriber has returned, whatever Subscribe and Unsubscriber
\* calls came before, no node reachable from the root other than the root has
\* both zero children and zero subscriptions.
C3_NoEmptyNodeAfterUnsubscribe ==
    (lastOp.kind = "unsubscribe" /\ ~lastOp.panic) =>
        \A n \in ReachFrom(nodes, RootPtr) \ {RootPtr} : ~IsEmptyNode(nodes, n)

\* C3 witness: an Unsubscriber for a path of two labels has returned, its leaf
\* is unlinked and the node above it, which still holds something, is kept.
C3_Witness ==
    /\ lastOp.kind = "unsubscribe" /\ ~lastOp.panic /\ ~lastOp.stale /\ lastOp.changed
    /\ \E k \in 1..Len(handles) :
          /\ handles[k].invoked
          /\ Len(handles[k].path) = 2
          /\ Ptr(handles[k].path, 0) \notin DOMAIN nodes
          /\ Ptr(SubSeq(handles[k].path, 1, 1), 0) \in DOMAIN nodes

\* C4: a subscription with the empty shard id that was registered before the
\* Publish began and has not been unsubscribed has Write called on it in that
\* Publish whenever the walk reaches its node.
C4_UnshardedDelivered ==
    lastOp.kind = "publish" =>
        \A k \in Live :
            LET n == Ptr(handles[k].path, 0)
            IN  (n \in pub.history /\ k \in RecsIn(nodes, n, "")) => Writes(k) >= 1

\* C4 witness: a Publish reached the node at a path of one label and wrote to an
\* unsharded live subscription there, and did not reach the node of another
\* live subscription.
C4_Witness ==
    /\ lastOp.kind = "publish"
    /\ \E k, j \in Live :
          /\ Len(handles[k].path) = 1
          /\ Ptr(handles[k].path, 0) \in pub.history
          /\ k \in RecsIn(nodes, Ptr(handles[k].path, 0), "")
          /\ Writes(k) = 1
          /\ Ptr(handles[j].path, 0) \notin pub.history
          /\ Writes(j) = 0

\* C5: at every node a Publish visits, of the k >= 1 subscriptions under one
\* non-empty shard id exactly one receives the datum and the other k-1 do not,
\* and every subscription under the empty shard id receives it.
C5_OnePerShardGroup ==
    lastOp.kind = "publish" =>
        \A n \in pub.history : \A shardID \in DOMAIN nodes[n].subscriptions :
            IF shardID = ""
            THEN \A k \in RecsIn(nodes, n, shardID) : Writes(k) = 1
            ELSE /\ Cardinality({k \in RecsIn(nodes, n, shardID) : Writes(k) >= 1}) = 1
                 /\ Cardinality({i \in 1..Len(pub.log) :
                        pub.log[i].n = n /\ pub.log[i].shardID = shardID}) = 1

\* C5 witness: a Publish visited a node that holds two subscriptions under the
\* shard id "g" and one under the empty shard id; one of the two and the
\* unsharded one were written.
C5_Witness ==
    /\ lastOp.kind = "publish"
    /\ \E n \in pub.history :
          /\ DOMAIN nodes[n].subscriptions = {"", "g"}
          /\ Cardinality(RecsIn(nodes, n, "g")) = 2
          /\ \E k \in RecsIn(nodes, n, "g") : Writes(k) = 0
          /\ \E k \in RecsIn(nodes, n, "g") : Writes(k) = 1
          /\ \A k \in RecsIn(nodes, n, "") : Writes(k) = 1

\* C7: a Subscribe immediately followed by the Unsubscriber it returned leaves
\* the trie as it was before the Subscribe: the same nodes, the same children
\* maps and the same buckets with the same records in the same order.
C7_SubscribeUnsubscribeRestores ==
    (lastOp.kind = "unsubscribe" /\ lastOp.afterSub /\ ~lastOp.panic) => nodes = snap

\* C7 witness: the Subscribe was given a path of two labels, made a node under
\* a node that held a subscription already, and the Unsubscriber has returned.
C7_Witness ==
    /\ lastOp.kind = "unsubscribe" /\ lastOp.afterSub /\ ~lastOp.panic
    /\ Len(handles) >= 2
    /\ Len(handles[Len(handles)].path) = 2
    /\ Ptr(handles[Len(handles)].path, 0) \notin DOMAIN snap
    /\ Ptr(SubSeq(handles[Len(handles)].path, 1, 1), 0) \in DOMAIN snap
    /\ nodes = snap

\* the ids rand.Int63 has returned so far are pairwise distinct
NoRepeat == Cardinality(IssuedIds) = Len(handles)

\* the number of records in the buckets of node n that carry the id
RecordsWith(h, n, id) ==
    Cardinality({x \in (DOMAIN h[n].subscriptions) \X (1..MaxSubscribes) :
        /\ x[2] <= Len(h[n].subscriptions[x[1]])
        /\ h[n].subscriptions[x[1]][x[2]].id = id})

\* the id of every live subscription is in exactly one node, exactly once
EachLiveIdOnce ==
    \A k \in Live :
        /\ Cardinality({n \in DOMAIN nodes : RecordsWith(nodes, n, handles[k].id) >= 1}) = 1
        /\ \A n \in DOMAIN nodes : RecordsWith(nodes, n, handles[k].id) <= 1

\* C8 as stated: the ids Subscribe assigns are unique for the lifetime of the
\* registry, so each live id is in exactly one node of the trie and exactly
\* once there.
C8_IdsUnique == NoRepeat /\ EachLiveIdOnce

\* C8: as long as the generator has not returned one value twice, each live id
\* is in exactly one node of the trie and exactly once there.
C8_IdsUniqueUnlessRepeated == NoRepeat => EachLiveIdOnce

\* C8 witness: three subscriptions with three distinct ids are live, two of
\* them in one bucket of one node, after an Unsubscriber ran.
C8_Witness ==
    /\ NoRepeat
    /\ Cardinality(Live) = 2
    /\ Len(handles) = 3
    /\ \E n \in DOMAIN nodes : \E shardID \in DOMAIN nodes[n].subscriptions :
          Len(nodes[n].subscriptions[shardID]) = 2
    /\ lastOp.kind = "unsubscribe"

\* the bucket without the records of Subscribe call k
WithoutRec(arr, k) ==
    LET Keep(e) == e.rec # k IN SelectSeq(arr, Keep)

\* the nodes on the way from the root to the node at path
OnPath(path) == {Ptr(SubSeq(path, 1, j), 0) : j \in 1..Len(path)}

\* what invoking handle k for the first time may do to the trie h, giving h2:
\* the record of k leaves its bucket, the nodes on k's path left without
\* children and subscriptions are unlinked, and every other record stays in its
\* bucket at its place in the order
OnlyOwnRecordRemoved(k, h, h2) ==
    LET gone == DOMAIN h \ DOMAIN h2
    IN  /\ DOMAIN h2 \subseteq DOMAIN h
        /\ gone \subseteq OnPath(handles[k].path)
        /\ k \in RecsIn(h, Ptr(handles[k].path, 0), "") \cup RecsIn(h, Ptr(handles[k].path, 0), "g")
        /\ \A n \in gone : \A shardID \in ShardIDs : RecsIn(h, n, shardID) \subseteq {k}
        /\ \A n \in DOMAIN h2 :
              /\ \A shardID \in ShardIDs :
                    BucketOf(h2[n], shardID) = WithoutRec(BucketOf(h[n], shardID), k)
              /\ DOMAIN h2[n].children \subseteq DOMAIN h[n].children
              /\ \A key \in DOMAIN h[n].children :
                    IF h[n].children[key] \in gone
                    THEN key \notin DOMAIN h2[n].children
                    ELSE key \in DOMAIN h2[n].children /\ h2[n].children[key] = h[n].children[key]

\* C9: the first invocation of an Unsubscriber removes the one record its
\* Subscribe made and no other, also where the same subscriber is registered
\* again at the same path under the same shard id.
C9_OnlyOwnRecord ==
    [][\A k \in 1..Len(handles) :
          (~handles[k].invoked /\ handles'[k].invoked) => OnlyOwnRecordRemoved(k, nodes, nodes')]_vars

\* C9 witness: the subscriber "s1" was registered by the first and the third
\* Subscribe in one bucket, the first handle has been invoked and the record of
\* the third is in the bucket.
C9_Witness ==
    /\ Len(handles) = 3
    /\ handles[1].path = handles[3].path
    /\ handles[1].invoked /\ ~handles[3].invoked
    /\ lastOp.kind = "unsubscribe" /\ ~lastOp.stale
    /\ \E shardID \in ShardIDs : \E n \in DOMAIN nodes :
          /\ n.path = handles[3].path
          /\ 3 \in RecsIn(nodes, n, shardID)
          /\ 1 \notin RecsIn(nodes, n, shardID)
          /\ snap = EmptyMap

\* goroutine g is inside the write lock: walking or editing the trie
Writing(g) == gor[g].pc \in {"AddChild", "cleanup", "Unlock"}
\* goroutine g is inside the read lock: its Publish traversal is in progress
Reading(g) == gor[g].pc = "traverse"

\* C6: with the real lock, in every reachable state, while a Subscribe call or
\* an Unsubscriber is walking or editing the trie no Publish traversal and no
\* other Subscribe or Unsubscriber is in progress.  (That two Publish
\* traversals can be in progress at once is the witness.)
C6_WriterExcludesAll ==
    \A g \in DOMAIN gor :
        Writing(g) => \A h \in DOMAIN gor \ {g} : ~Writing(h) /\ ~Reading(h)

\* C6 witness: two Publish traversals are in progress at the same time, each
\* has written to a subscriber and neither has returned.
C6_Witness ==
    /\ mu.kind = "RWMutex" /\ mu.r = {1, 2}
    /\ \A g \in {1, 2} : Reading(g) /\ Len(gor[g].log) >= 1 /\ Len(gor[g].stack) >= 1

\* the last Publish began after the Subscribe call k, made from inside a Write,
\* had returned, and reached the node of k, whose record is still there
ReachedInner(k) ==
    /\ k \in Live
    /\ handles[k].inner
    /\ k <= pub.h0
    /\ NodeAt(nodes, RootPtr, handles[k].path) \in pub.history

\* C10: without the mutex, a Write that calls Subscribe for a new subscriber at
\* a disjoint path from inside a Publish does not deadlock: no call ever waits
\* for the lock, every Publish returns, and every later Publish that reaches
\* the node of the new subscriber writes to it.
C10_ResubscribeInWrite ==
    /\ [](\A g \in DOMAIN gor : ~gor[g].blocked)
    /\ (gor[1].op = "Publish") ~> (gor[1].pc = "idle" /\ lastOp.kind = "publish")
    /\ [](lastOp.kind = "publish" =>
            \A k \in 1..Len(handles) : ReachedInner(k) => Writes(k) >= 1)

\* C10 witness: a Publish has returned that began after a Subscribe made from
\* inside a Write had returned, reached the new subscriber's node and wrote to
\* the new subscriber.
C10_Witness ==
    /\ mu.kind = "nopLock"
    /\ lastOp.kind = "publish" /\ ~lastOp.panic
    /\ \E k \in 1..Len(handles) : ReachedInner(k) /\ Writes(k) = 1

\* the last call was a Publish with traverser a and has returned
PublishedWith(a) == lastOp.kind = "publish" /\ pub.a = a

\* the record of Subscribe call k is in the bucket of the empty shard id of the
\* node at path p
UnshardedAt(k, p) == k \in Live /\ handles[k].path = p /\ k \in RecsIn(nodes, Ptr(p, 0), "")

\* C11: a replacement traverser returned by Paths.At for a label is used only
\* below that label, a label returned without one goes on with the current
\* traverser, and siblings are not affected: with ReplacingTraverser every
\* Traverse call below "a" is made on the replacement and every call below "b"
\* on the original, so the subscribers at [a,a] and [b,b] are written once and
\* nothing at [a,b] or [b,a] is written.
C11_ReplacementOnItsBranchOnly ==
    PublishedWith(ReplacingTraverser) =>
        /\ \A i \in 1..Len(pub.calls) :
              pub.calls[i].a = IF Len(pub.calls[i].l) >= 1 /\ pub.calls[i].l[1] = "a"
                               THEN Below(<<"a">>) ELSE ReplacingTraverser
        /\ \A k \in 1..Len(handles) :
              /\ (UnshardedAt(k, <<"a", "a">>) \/ UnshardedAt(k, <<"b", "b">>)) => Writes(k) = 1
              /\ handles[k].path \in {<<"a", "b">>, <<"b", "a">>} => Writes(k) = 0

\* C11 witness: subscribers at [a,a], [b,b] and [a,b], a Publish with
\* ReplacingTraverser has written to the first two and not to the third.
C11_Witness ==
    /\ PublishedWith(ReplacingTraverser)
    /\ \E k1, k2, k3 \in 1..Len(handles) :
          /\ UnshardedAt(k1, <<"a", "a">>) /\ Writes(k1) = 1
          /\ UnshardedAt(k2, <<"b", "b">>) /\ Writes(k2) = 1
          /\ UnshardedAt(k3, <<"a", "b">>) /\ Writes(k3) = 0

\* path p is a prefix of path q
IsPrefix(p, q) == Len(p) <= Len(q) /\ \A i \in 1..Len(p) : p[i] = q[i]

\* C12: a Publish with a LinearTreeTraverser over P writes exactly once to
\* every unsharded subscription registered at a prefix of P, the empty path
\* included, and writes to no subscription registered at any other path.
C12_LinearDeliversToPrefixes ==
    (lastOp.kind = "publish" /\ pub.a.kind = "LinearTreeTraverser") =>
        \A k \in 1..Len(handles) :
            /\ (UnshardedAt(k, handles[k].path) /\ IsPrefix(handles[k].path, pub.a.a))
                   => Writes(k) = 1
            /\ ~IsPrefix(handles[k].path, pub.a.a) => Writes(k) = 0

\* C12 witness: a Publish over [a,b,a] has written once to the subscribers at
\* [a,b] and at the empty path and has not written to the subscriber at [b].
C12_Witness ==
    /\ PublishedWith(LinearTreeTraverser(<<"a", "b", "a">>))
    /\ \E k1, k2, k3 \in 1..Len(handles) :
          /\ UnshardedAt(k1, <<"a", "b">>) /\ Writes(k1) = 1
          /\ UnshardedAt(k2, <<>>) /\ Writes(k2) = 1
          /\ UnshardedAt(k3, <<"b">>) /\ Writes(k3) = 0

\* the last Publish called Traverse at a node and got a label for which the
\* node has no child
MissedLabel ==
    \E i \in 1..Len(pub.calls) : \E j \in 0..2 :
        LET r == At(Traverse(pub.calls[i].a, pub.calls[i].l), j)
        IN  r.ok /\ Ptr(Append(pub.calls[i].l, r.path), 0) \notin DOMAIN nodes

\* C13: a label for which the current node has no child is tolerated.  After
\* every Publish: no panic, every Traverse call was made at the path of a node
\* of the trie (none below a label without a child), every Write went to a
\* record of a node of the trie; and the Publish step leaves the trie and the
\* Unsubscribers as they were.
C13_MissingChildTolerated ==
    /\ [](lastOp.kind = "publish" =>
            /\ ~lastOp.panic
            /\ \A i \in 1..Len(pub.calls) : Ptr(pub.calls[i].l, 0) \in DOMAIN nodes
            /\ \A i \in 1..Len(pub.log) :
                  /\ pub.log[i].n \in DOMAIN nodes
                  /\ pub.log[i].n = Ptr(handles[pub.log[i].rec].path, 0))
    /\ [][lastOp'.kind = "publish" => (nodes' = nodes /\ handles' = handles)]_vars

\* C13 witness: a Publish on a trie with nodes has returned whose traverser
\* yielded a label without a child.
C13_Witness ==
    /\ lastOp.kind = "publish" /\ ~lastOp.panic
    /\ MissedLabel
    /\ Len(pub.calls) >= 2
    /\ Cardinality(DOMAIN nodes) >= 3

NodeMethods ==
    {"AddChild", "FetchChild", "DeleteChild", "ChildLen", "AddSubscription",
     "DeleteSubscription", "SubscriptionLen", "ForEachSubscription"}

\* C14: every method of Node called on the nil node returns the zero result
\* without a fault: no panic, the number returned is 0, the node returned is
\* nil, f is not called and the trie is unchanged.
C14_NilReceiverIsZero ==
    (lastOp.kind \in NodeMethods /\ lastOp.recv = NilPtr) =>
        /\ ~lastOp.panic
        /\ lastOp.ret = 0
        /\ lastOp.child = NilPtr
        /\ lastOp.f = {}
        /\ ~lastOp.changed

\* C15: the state of the random dispatcher's generator is protected: at no
\* time are two goroutines' Publish calls inside Intn of the registry's Rand.
C15_OneGoroutineInIntn ==
    Cardinality({g \in DOMAIN gor : InIntn(g)}) <= 1

\* the last Write of goroutine g's running Publish went to a subscriber whose
\* Write calls Subscribe or its Unsubscriber
InReentrantWrite(g, s) ==
    /\ gor[g].pc = "traverse"
    /\ Len(gor[g].log) >= 1
    /\ gor[g].log[Len(gor[g].log)].sub = s
    /\ Reentrant(s, handles)

\* C16: with the real lock, a Write that calls Subscribe or its Unsubscriber
\* from inside a Publish never returns.  The Publish that made such a Write
\* waits; a waiting Publish holds the reader lock and its Lock request cannot
\* be granted; it takes no further step and does not return; and no Publish
\* that has returned has written to such a subscriber.
C16_ReentrantWriteDeadlocks ==
    /\ [](\A g \in DOMAIN gor :
            /\ (InReentrantWrite(g, Resubscriber) \/ InReentrantWrite(g, Reunsubscriber))
                   => gor[g].blocked
            /\ gor[g].blocked => (g \in mu.r /\ ~CanLock(mu) /\ gor[g].pc = "traverse"))
    /\ [][\A g \in DOMAIN gor : gor[g].blocked => gor'[g] = gor[g]]_vars
    /\ [](lastOp.kind = "publish" =>
            \A i \in 1..Len(pub.log) : ~Reentrant(pub.log[i].sub, handles))

\* C16 witness: two Publish calls wait for ever, one in a Write that called
\* Subscribe and one in a Write that called its Unsubscriber.
C16_Witness ==
    /\ mu.kind = "RWMutex"
    /\ gor[1].blocked /\ InReentrantWrite(1, Resubscriber)
    /\ gor[2].blocked /\ InReentrantWrite(2, Reunsubscriber)

\* the Traverse calls of the last Publish made at path l, in order
CallsAt(l) == SelectSeq(pub.calls, LAMBDA c : c.l = l)

\* C17: a node reached a second time within one Publish is not delivered to
\* again, but the traverser is invoked there again and the walk descends.  With
\* the traverser that yields "a" twice at the root, the first time with nothing
\* below and the second time with "b" below: Traverse is called at ["a"] twice,
\* the second time with the later branch's traverser, and the unsharded
\* subscribers at ["a"] and at ["a","b"] are each written exactly once.
C17_RevisitWalksOn ==
    PublishedWith(RevisitingTraverser) =>
        /\ Ptr(<<"a">>, 0) \in DOMAIN nodes =>
               CallsAt(<<"a">>) = <<[a |-> Below(<<>>), l |-> <<"a">>],
                                    [a |-> Below(<<"b">>), l |-> <<"a">>]>>
        /\ Ptr(<<"a", "b">>, 0) \in DOMAIN nodes => Len(CallsAt(<<"a", "b">>)) = 1
        /\ \A k \in 1..Len(handles) :
              (UnshardedAt(k, <<"a">>) \/ UnshardedAt(k, <<"a", "b">>)) => Writes(k) = 1

\* C17 witness: such a Publish has returned having written once to a subscriber
\* at ["a"] and once to one at ["a","b"], which only the second branch leads to.
C17_Witness ==
    /\ PublishedWith(RevisitingTraverser)
    /\ Len(CallsAt(<<"a">>)) = 2
    /\ \E k1, k2 \in 1..Len(handles) :
          /\ UnshardedAt(k1, <<"a">>) /\ Writes(k1) = 1
          /\ UnshardedAt(k2, <<"a", "b">>) /\ Writes(k2) = 1

\* the sequence q of ordinals is strictly increasing
Increasing(q) == \A i, j \in 1..Len(q) : i < j => q[i] < q[j]

\* the ordinals of the records the last Publish wrote to from the bucket of the
\* empty shard id of node n, in the order of the Write calls
WrittenAt(n) ==
    LET es == SelectSeq(pub.log, LAMBDA e : e.n = n /\ e.shardID = "")
    IN  [i \in 1..Len(es) |-> es[i].rec]

\* the ordinals of the records of bucket shardID of node n, in slice order
BucketRecs(n, shardID) ==
    [i \in 1..Len(nodes[n].subscriptions[shardID]) |-> nodes[n].subscriptions[shardID][i].rec]

\* C18: the unsharded subscriptions of a node are written in the order in which
\* they were subscribed, whatever Subscribe and Unsubscriber calls came before:
\* every bucket holds its records in the order of their Subscribe calls, and
\* the Write calls of one Publish at one node follow that order.
C18_SubscriptionOrderKept ==
    /\ \A n \in DOMAIN nodes : \A shardID \in DOMAIN nodes[n].subscriptions :
          Increasing(BucketRecs(n, shardID))
    /\ lastOp.kind = "publish" =>
          \A n \in DOMAIN nodes :
              /\ Increasing(WrittenAt(n))
              /\ (n \in pub.history /\ "" \in DOMAIN nodes[n].subscriptions)
                     => WrittenAt(n) = BucketRecs(n, "")

\* C18 witness: of three subscribers of one bucket the second was unsubscribed,
\* and a Publish has written to the first and then to the third.
C18_Witness ==
    /\ lastOp.kind = "publish"
    /\ Len(handles) = 3 /\ handles[2].invoked
    /\ \E n \in DOMAIN nodes : WrittenAt(n) = <<1, 3>>

\* the ids of the records of bucket shardID of node n
BucketIds(n, shardID) ==
    {nodes[n].subscriptions[shardID][i].id : i \in 1..Len(nodes[n].subscriptions[shardID])}

\* the number of records of id in bucket shardID of node n
IdCount(n, shardID, id) ==
    Cardinality({i \in 1..Len(nodes[n].subscriptions[shardID]) :
                    nodes[n].subscriptions[shardID][i].id = id})

RECURSIVE SumLens(_, _)
SumLens(subs, S) ==
    IF S = {} THEN 0
    ELSE LET x == CHOOSE x \in S : TRUE IN Len(subs[x]) + SumLens(subs, S \ {x})

\* the index n.shards and the buckets n.subscriptions of every node agree, no
\* bucket is empty, and RandSharding.Write on any bucket does not panic
IndexAgrees ==
    \A n \in DOMAIN nodes :
        LET node == nodes[n] IN
        /\ DOMAIN node.shards = UNION {BucketIds(n, shardID) : shardID \in DOMAIN node.subscriptions}
        /\ \A id \in DOMAIN node.shards :
              /\ node.shards[id] \in DOMAIN node.subscriptions
              /\ \A shardID \in DOMAIN node.subscriptions :
                    IdCount(n, shardID, id) = IF shardID = node.shards[id] THEN 1 ELSE 0
        /\ SubscriptionLen(nodes, n) = SumLens(node.subscriptions, DOMAIN node.subscriptions)
        /\ \A shardID \in DOMAIN node.subscriptions :
              /\ Len(node.subscriptions[shardID]) >= 1
              /\ \A v \in RandShardingWrite(PublishStart(nodes, handles, mu, NilTraverser),
                                            node.subscriptions[shardID], n, shardID) :
                    ~v.panic

\* C19 as stated: in every reachable state each node's index and buckets
\* agree: the ids of the index are the ids of the records, the record of id i
\* lies once in the bucket of shard index[i], SubscriptionLen is the number of
\* records, and no bucket is empty.
C19_IndexAgrees == IndexAgrees

\* C19: as long as the generator has not returned one value twice, each node's
\* index and buckets agree and no bucket is empty.
C19_IndexAgreesUnlessRepeated == NoRepeat => IndexAgrees

\* C19 witness: with three distinct ids issued, an Unsubscriber has removed its
\* record from a node that keeps the two other records.
C19_Witness ==
    /\ NoRepeat
    /\ Len(handles) = 3
    /\ lastOp.kind = "unsubscribe" /\ lastOp.changed
    /\ \E n \in DOMAIN nodes :
          /\ Cardinality(DOMAIN nodes[n].shards) = 2
          /\ \E k \in 1..Len(handles) :
                /\ handles[k].invoked /\ Ptr(handles[k].path, 0) = n
                /\ handles[k].id \notin DOMAIN nodes[n].shards

\* C20: every Publish terminates.  For each of the traversers, a Publish that
\* was called returns, without a panic; and the stack of traversePublish calls
\* is never deeper than the trie plus the one call on the absent child, at
\* which the descent stops.
C20_PublishTerminates ==
    /\ \A a \in TermTraversers :
          (gor[1].op = "Publish" /\ gor[1].a = a) ~> (PublishedWith(a) /\ ~lastOp.panic)
    /\ [](Len(gor[1].stack) <= MaxDepth + 2)

\* C20 witness: a Publish with the traverser that yields "a" twice at every
\* level has returned from a trie of depth two, having called Traverse at the
\* root, at ["a"] and at ["a","a"].
C20_Witness ==
    /\ PublishedWith(AllLabels(<<"a", "a">>)) /\ ~lastOp.panic
    /\ Len(CallsAt(<<"a", "a">>)) >= 2
    /\ Len(pub.log) >= 2

\* the ordinals of the records that bucket "" of node n holds, empty if the
\* node has no such bucket
UnshardedRecs(h, n) ==
    {BucketOf(h[n], "")[i].rec : i \in 1..Len(BucketOf(h[n], ""))}

\* C21: without the mutex, a Publish during which a Write invoked the
\* Unsubscriber of a record of the unsharded bucket being written to (its own
\* included) writes exactly once to every other record that was in that bucket
\* when the Publish began.  Stated of the step a Publish makes: for every node
\* it emitted at, if an Unsubscriber of a record of the node's unsharded bucket
\* was invoked during the Publish, each record of the bucket whose
\* Unsubscriber was not invoked got one Write.
C21_OthersWrittenOnce ==
    [][(lastOp'.kind = "publish" /\ ~lastOp'.panic /\ mu.kind = "nopLock") =>
          \A n \in DOMAIN nodes :
              (/\ n \in pub'.history
               /\ \E k \in UnshardedRecs(nodes, n) : ~handles[k].invoked /\ handles'[k].invoked)
              => \A k \in UnshardedRecs(nodes, n) :
                     ~handles'[k].invoked =>
                         Cardinality({i \in 1..Len(pub'.log) : pub'.log[i].rec = k}) = 1]_vars

====
